---------------------------- MODULE Spec2Model ----------------------------
(***************************************************************************)
(* Model of bgpexplorer's configuration loader, src/config.rs:             *)
(* SvcConfig::from_inifile, PeerMode::from_str, HistoryChangeMode::from_str*)
(* and the standard-library parsers they call (integers, IP addresses,     *)
(* socket addresses).                                                      *)
(*                                                                         *)
(* A string of the program is a sequence of one-character strings, so that *)
(* split, trim and the parsers work on it character by character.  Str     *)
(* renders such a sequence as text (used for formatted error messages and  *)
(* for section lookups).  An Option is a sequence of length 0 (None) or 1  *)
(* (Some).  An integer of the program is its canonical decimal text (a     *)
(* character sequence, "-" first when negative), so that 64-bit values     *)
(* keep their width.                                                       *)
(***************************************************************************)
EXTENDS Integers, Sequences, FiniteSets, TLC

\* conf     the parsed ini file: section name -> key name -> Option<String>
\* files    the paths that hold a loadable whois server list
\* inifile  the path from_inifile was called with
\* pc       the field from_inifile is at
\* env      the local variables from_inifile has bound so far
\* stderr   the lines written to standard error
\* ret      <<>> while running, then <<"Ok", config>>, <<"Err", message>>,
\*          or <<"Panic", message>> when the call unwinds instead of returning
VARIABLES conf, files, inifile, pc, env, stderr, ret

vars == <<conf, files, inifile, pc, env, stderr, ret>>

None == <<>>
Some(v) == <<v>>

---------------------------------------------------------------------------
(* Text.                                                                   *)

RECURSIVE Str(_)
Str(cs) == IF cs = <<>> THEN "" ELSE cs[1] \o Str(Tail(cs))

HexVal ==
  ("0" :> 0) @@ ("1" :> 1) @@ ("2" :> 2) @@ ("3" :> 3) @@ ("4" :> 4) @@
  ("5" :> 5) @@ ("6" :> 6) @@ ("7" :> 7) @@ ("8" :> 8) @@ ("9" :> 9) @@
  ("a" :> 10) @@ ("b" :> 11) @@ ("c" :> 12) @@ ("d" :> 13) @@ ("e" :> 14) @@
  ("f" :> 15) @@ ("A" :> 10) @@ ("B" :> 11) @@ ("C" :> 12) @@ ("D" :> 13) @@
  ("E" :> 14) @@ ("F" :> 15)

DecChars == <<"0", "1", "2", "3", "4", "5", "6", "7", "8", "9">>

\* char::to_digit(radix): the digit's value, or -1 when c is no digit.
ToDigit(c, radix) ==
  IF c \in DOMAIN HexVal /\ HexVal[c] < radix THEN HexVal[c] ELSE -1

\* char::is_whitespace: the characters of the Unicode property White_Space.
\* U+0009 to U+000D, U+0020, U+0085, U+00A0 and U+1680 are listed (U+000B,
\* U+0085, U+00A0 and U+1680 as the characters themselves); a string of this
\* module cannot hold the others (U+2000 to U+200A, U+2028, U+2029, U+202F,
\* U+205F, U+3000).
IsWhitespace(c) ==
  c \in {"\t", "\n", "", "\f", "\r", " ", "", " ", " "}

\* str::split(sep): the pieces between separators, empty pieces included.
RECURSIVE SplitFrom(_, _, _)
SplitFrom(s, sep, cur) ==
  IF s = <<>> THEN <<cur>>
  ELSE IF s[1] = sep THEN <<cur>> \o SplitFrom(Tail(s), sep, <<>>)
  ELSE SplitFrom(Tail(s), sep, Append(cur, s[1]))

Split(s, sep) == SplitFrom(s, sep, <<>>)

RECURSIVE TrimStart(_)
TrimStart(s) ==
  IF s # <<>> /\ IsWhitespace(s[1]) THEN TrimStart(Tail(s)) ELSE s

RECURSIVE TrimEnd(_)
TrimEnd(s) ==
  IF s # <<>> /\ IsWhitespace(s[Len(s)])
  THEN TrimEnd(SubSeq(s, 1, Len(s) - 1)) ELSE s

\* str::trim
Trim(s) == TrimEnd(TrimStart(s))

---------------------------------------------------------------------------
(* Decimal integers as canonical text.                                     *)

RECURSIVE StripZeros(_)
StripZeros(ds) ==
  IF Len(ds) > 1 /\ ds[1] = "0" THEN StripZeros(Tail(ds)) ELSE ds

\* a <= b for two canonical (no leading zero) non-empty digit sequences.
RECURSIVE LexLeq(_, _)
LexLeq(a, b) ==
  IF a = <<>> THEN TRUE
  ELSE IF HexVal[a[1]] # HexVal[b[1]] THEN HexVal[a[1]] < HexVal[b[1]]
  ELSE LexLeq(Tail(a), Tail(b))

DigitsLeq(a, b) ==
  IF Len(a) # Len(b) THEN Len(a) < Len(b) ELSE LexLeq(a, b)

\* The canonical decimal text of a small natural number.
RECURSIVE Dec(_)
Dec(n) == IF n < 10 THEN <<DecChars[n + 1]>>
          ELSE Append(Dec(n \div 10), DecChars[(n % 10) + 1])

U32Max == <<"4","2","9","4","9","6","7","2","9","5">>
U64Max == <<"1","8","4","4","6","7","4","4","0","7","3","7","0","9","5","5",
            "1","6","1","5">>
I64Max == <<"9","2","2","3","3","7","2","0","3","6","8","5","4","7","7","5",
            "8","0","7">>
I64MinAbs == <<"9","2","2","3","3","7","2","0","3","6","8","5","4","7","7","5",
               "8","0","8">>

\* The first position of ds (from 1) that makes the running parse stop: a
\* character that is no decimal digit, or a digit with which the value so
\* far passes lim; 0 when there is none.
RECURSIVE FirstBad(_, _, _)
FirstBad(ds, lim, k) ==
  IF k > Len(ds) THEN 0
  ELSE IF ToDigit(ds[k], 10) < 0 THEN k
  ELSE IF ~DigitsLeq(StripZeros(SubSeq(ds, 1, k)), lim) THEN k
  ELSE FirstBad(ds, lim, k + 1)

\* <integer>::from_str: an optional sign ("-" only for a signed type), then
\* decimal digits, with checked arithmetic.  err is the Display text of the
\* ParseIntError.
ParseInt(s, signed, maxPos, maxNegAbs) ==
  IF s = <<>>
  THEN [ok |-> FALSE, val |-> <<>>, err |-> "cannot parse integer from empty string"]
  ELSE IF Len(s) = 1 /\ s[1] \in {"+", "-"}
  THEN [ok |-> FALSE, val |-> <<>>, err |-> "invalid digit found in string"]
  ELSE
    LET neg == signed /\ s[1] = "-"
        ds  == IF s[1] = "+" \/ neg THEN Tail(s) ELSE s
        lim == IF neg THEN maxNegAbs ELSE maxPos
        bad == FirstBad(ds, lim, 1)
        mag == StripZeros(ds)
    IN  IF bad = 0
        THEN [ok |-> TRUE,
              val |-> IF neg /\ mag # <<"0">> THEN <<"-">> \o mag ELSE mag,
              err |-> ""]
        ELSE IF ToDigit(ds[bad], 10) < 0
        THEN [ok |-> FALSE, val |-> <<>>, err |-> "invalid digit found in string"]
        ELSE IF neg
        THEN [ok |-> FALSE, val |-> <<>>, err |-> "number too small to fit in target type"]
        ELSE [ok |-> FALSE, val |-> <<>>, err |-> "number too large to fit in target type"]

ParseU32(s) == ParseInt(s, FALSE, U32Max, U32Max)
ParseU64(s) == ParseInt(s, FALSE, U64Max, U64Max)
ParseUsize(s) == ParseInt(s, FALSE, U64Max, U64Max)
ParseI64(s) == ParseInt(s, TRUE, I64Max, I64MinAbs)

---------------------------------------------------------------------------
(* std::net address parsers.  A reader takes the text and the position to  *)
(* read from and returns [ok, pos, val]: whether it matched, the position  *)
(* after what it consumed, and the value read.                             *)

NoRead == [ok |-> FALSE, pos |-> 0, val |-> 0]

\* The number of radix-digits of s starting at pos.
RECURSIVE DigitRun(_, _, _)
DigitRun(s, pos, radix) ==
  IF pos <= Len(s) /\ ToDigit(s[pos], radix) >= 0
  THEN 1 + DigitRun(s, pos + 1, radix) ELSE 0

\* The value of the n radix-digits of s starting at pos (n small).
RECURSIVE NumVal(_, _, _, _)
NumVal(s, pos, n, radix) ==
  IF n = 0 THEN 0
  ELSE NumVal(s, pos, n - 1, radix) * radix + ToDigit(s[pos + n - 1], radix)

\* Parser::read_number(radix, Some(maxDigits), allowZeroPrefix) into a type
\* whose largest value is maxVal.
ReadNumberMax(s, pos, radix, maxDigits, allowZeroPrefix, maxVal) ==
  LET n == DigitRun(s, pos, radix)
  IN  IF n = 0 \/ n > maxDigits THEN NoRead
      ELSE IF ~allowZeroPrefix /\ s[pos] = "0" /\ n > 1 THEN NoRead
      ELSE IF NumVal(s, pos, n, radix) > maxVal THEN NoRead
      ELSE [ok |-> TRUE, pos |-> pos + n, val |-> NumVal(s, pos, n, radix)]

\* Parser::read_number(10, None, true): any number of digits, checked
\* arithmetic against lim (canonical text); val is the canonical text.
ReadNumberChecked(s, pos, lim) ==
  LET n  == DigitRun(s, pos, 10)
      ds == StripZeros(SubSeq(s, pos, pos + n - 1))
  IN  IF n = 0 THEN NoRead
      ELSE IF ~DigitsLeq(ds, lim) THEN NoRead
      ELSE [ok |-> TRUE, pos |-> pos + n, val |-> ds]

\* Parser::read_given_char
GivenChar(s, pos, c) == pos <= Len(s) /\ s[pos] = c

\* A reader's result handed on: `match r { Some(v) => K(v), None => otherwise }`
\* (the `?` of the parsers when otherwise is NoRead).
Match(r, K(_), otherwise) == IF r.ok THEN K(r) ELSE otherwise

\* `let v = ...; K(v)`
Bind(v, K(_)) == K(v)

\* `match r { Ok(a) => OkK(a), Err(e) => ErrK(e) }` for a result [ok, val, err]
MatchResult(r, OkK(_), ErrK(_)) == IF r.ok THEN OkK(r) ELSE ErrK(r)

\* Parser::read_ipv4_addr: four decimal octets separated by ".", none with a
\* leading zero.
RECURSIVE ReadIpv4Groups(_, _, _, _)
ReadIpv4Groups(s, pos, i, acc) ==
  IF i = 4 THEN [ok |-> TRUE, pos |-> pos, val |-> acc]
  ELSE IF i > 0 /\ ~GivenChar(s, pos, ".") THEN NoRead
  ELSE Match(ReadNumberMax(s, IF i > 0 THEN pos + 1 ELSE pos, 10, 3, FALSE, 255),
             LAMBDA r : ReadIpv4Groups(s, r.pos, i + 1, Append(acc, r.val)),
             NoRead)

ReadIpv4Addr(s, pos) == ReadIpv4Groups(s, pos, 0, <<>>)

\* read_groups of Parser::read_ipv6_addr: up to limit 16-bit groups separated
\* by ":", the last two possibly written as an embedded IPv4 address.
\* Returns [n, v4, pos, groups]: the number of groups read, whether an
\* embedded IPv4 address ended them, the position after them, the groups.
RECURSIVE ReadGroups(_, _, _, _, _)
ReadGroups(s, pos, i, limit, acc) ==
  IF i >= limit THEN [n |-> i, v4 |-> FALSE, pos |-> pos, groups |-> acc]
  ELSE IF i > 0 /\ ~GivenChar(s, pos, ":")
  THEN [n |-> i, v4 |-> FALSE, pos |-> pos, groups |-> acc]
  ELSE Bind(IF i > 0 THEN pos + 1 ELSE pos, LAMBDA start :
         Match(IF i < limit - 1 THEN ReadIpv4Addr(s, start) ELSE NoRead,
               LAMBDA ip4 :
                 [n |-> i + 2, v4 |-> TRUE, pos |-> ip4.pos,
                  groups |-> acc \o <<ip4.val[1] * 256 + ip4.val[2],
                                      ip4.val[3] * 256 + ip4.val[4]>>],
               Match(ReadNumberMax(s, start, 16, 4, TRUE, 65535),
                     LAMBDA g : ReadGroups(s, g.pos, i + 1, limit,
                                           Append(acc, g.val)),
                     [n |-> i, v4 |-> FALSE, pos |-> pos, groups |-> acc])))

\* Parser::read_ipv6_addr
ReadIpv6Addr(s, pos) ==
  Bind(ReadGroups(s, pos, 0, 8, <<>>), LAMBDA head :
    IF head.n = 8 THEN [ok |-> TRUE, pos |-> head.pos, val |-> head.groups]
    ELSE IF head.v4 THEN NoRead
    ELSE IF ~(GivenChar(s, head.pos, ":") /\ GivenChar(s, head.pos + 1, ":"))
    THEN NoRead
    ELSE Bind(ReadGroups(s, head.pos + 2, 0, 8 - (head.n + 1), <<>>),
              LAMBDA tail :
                [ok |-> TRUE, pos |-> tail.pos,
                 val |-> head.groups
                         \o [k \in 1..(8 - head.n - tail.n) |-> 0]
                         \o tail.groups]))

V4(octets) == [v |-> 4, a |-> octets]
V6(groups) == [v |-> 6, a |-> groups]

\* Parser::read_ip_addr
ReadIpAddr(s, pos) ==
  Match(ReadIpv4Addr(s, pos),
        LAMBDA r4 : [ok |-> TRUE, pos |-> r4.pos, val |-> V4(r4.val)],
        Match(ReadIpv6Addr(s, pos),
              LAMBDA r6 : [ok |-> TRUE, pos |-> r6.pos, val |-> V6(r6.val)],
              NoRead))

\* SocketAddr::new(ip, port); scope is the IPv6 scope id (0 for IPv4).
SocketAddrNew(ip, port) == [ip |-> ip, port |-> port, scope |-> <<"0">>]

\* Parser::read_port
ReadPort(s, pos) ==
  IF ~GivenChar(s, pos, ":") THEN NoRead
  ELSE Match(ReadNumberChecked(s, pos + 1, Dec(65535)),
             LAMBDA r : [ok |-> TRUE, pos |-> r.pos,
                         val |-> NumVal(r.val, 1, Len(r.val), 10)],
             NoRead)

\* Parser::read_socket_addr_v4
ReadSocketAddrV4(s, pos) ==
  Match(ReadIpv4Addr(s, pos),
        LAMBDA ip :
          Match(ReadPort(s, ip.pos),
                LAMBDA pt : [ok |-> TRUE, pos |-> pt.pos,
                             val |-> SocketAddrNew(V4(ip.val), pt.val)],
                NoRead),
        NoRead)

\* Parser::read_scope_id, with unwrap_or(0): "%" and a 32-bit number.
ReadScopeId(s, pos) ==
  Match(IF GivenChar(s, pos, "%") THEN ReadNumberChecked(s, pos + 1, U32Max)
        ELSE NoRead,
        LAMBDA r : r,
        [ok |-> TRUE, pos |-> pos, val |-> <<"0">>])

\* Parser::read_socket_addr_v6: "[" address, optional "%scope", "]", port.
ReadSocketAddrV6(s, pos) ==
  IF ~GivenChar(s, pos, "[") THEN NoRead
  ELSE Match(ReadIpv6Addr(s, pos + 1),
             LAMBDA ip :
               Bind(ReadScopeId(s, ip.pos), LAMBDA sc :
                 IF ~GivenChar(s, sc.pos, "]") THEN NoRead
                 ELSE Match(ReadPort(s, sc.pos + 1),
                            LAMBDA pt :
                              [ok |-> TRUE, pos |-> pt.pos,
                               val |-> [ip |-> V6(ip.val), port |-> pt.val,
                                        scope |-> sc.val]],
                            NoRead)),
             NoRead)

\* Parser::parse_with: the reader must consume the whole text.  The results
\* are [ok, val].
Whole(s, r) == IF r.ok /\ r.pos = Len(s) + 1
               THEN [ok |-> TRUE, val |-> r.val]
               ELSE [ok |-> FALSE, val |-> 0]

\* <Ipv4Addr as FromStr>::from_str
ParseIpv4Addr(s) == Whole(s, ReadIpv4Addr(s, 1))

\* <IpAddr as FromStr>::from_str
ParseIpAddr(s) == Whole(s, ReadIpAddr(s, 1))

\* <SocketAddr as FromStr>::from_str
ParseSocketAddr(s) ==
  Whole(s, Match(ReadSocketAddrV4(s, 1), LAMBDA r4 : r4, ReadSocketAddrV6(s, 1)))

---------------------------------------------------------------------------
(* Literal texts of the source.                                            *)

T_dflt_http == <<"0",".","0",".","0",".","0",":","8","0","8","0">>
T_dflt_dns == <<"1",".","1",".","1",".","1",":","5","3">>
T_dflt_rid == <<"1",".","1",".","1",".","1">>
T_53 == <<":","5","3">>
T_contrib == <<".","/","c","o","n","t","r","i","b">>
T_whoiscache == <<"w","h","o","i","s","c","a","c","h","e",".","d","b">>

---------------------------------------------------------------------------
(* Outcome of extracting one field: a value, a returned ErrorConfig, or a  *)
(* panic.                                                                  *)

Ok(v) == [tag |-> "Ok", val |-> v, msg |-> ""]
Err(m) == [tag |-> "Err", val |-> <<>>, msg |-> m]
Panic(m) == [tag |-> "Panic", val |-> <<>>, msg |-> m]

\* <ErrorConfig as Display>::fmt
ErrorConfigDisplay(m) == "ErrorConfig: " \o m

\* HashMap::contains_key
Has(section, key) == key \in DOMAIN section

\* <PeerMode as FromStr>::from_str
PeerModeFromStr(s) ==
  LET sp == Split(s, " ")
  IN  CASE Str(sp[1]) = "bgpactive" -> Ok("BgpActive")
        [] Str(sp[1]) = "bgppassive" -> Ok("BgpPassive")
        [] Str(sp[1]) = "bmppassive" -> Ok("BmpPassive")
        [] Str(sp[1]) = "bmpactive" -> Ok("BmpActive")
        [] OTHER -> Err("invalid mode")

\* HistoryChangeMode::from_str were it to end the first token at any
\* whitespace character.
HistoryChangeModeFromStr_Whitespace(s) ==
  LET seps == {i \in 1..Len(s) : IsWhitespace(s[i])}
      first == IF seps = {} THEN s
               ELSE SubSeq(s, 1, (CHOOSE i \in seps : \A k \in seps : i <= k) - 1)
  IN  CASE Str(first) = "every" -> Ok("EveryUpdate")
        [] Str(first) = "differ" -> Ok("OnlyDiffer")
        [] OTHER -> Err("invalid history mode")

\* <HistoryChangeMode as FromStr>::from_str
HistoryChangeModeFromStr(s) ==
  LET sp == Split(s, " ")
  IN  CASE Str(sp[1]) = "every" -> Ok("EveryUpdate")
        [] Str(sp[1]) = "differ" -> Ok("OnlyDiffer")
        [] OTHER -> Err("invalid history mode")

\* WhoIs::from_path: loads the server list the path names.  The loader is
\* not part of config.rs; msg is its error in Debug form, the form unwrap
\* prints.
WhoIsFromPath(path, fs) ==
  IF Str(path) \in fs THEN Ok([servers |-> Str(path)])
  ELSE Err("StubIo(\"cannot load whois servers\")")

\* chrono::Duration::seconds: panics when the seconds do not fit in the
\* duration's range of i64::MAX milliseconds either way.
DurationSecondsMax == <<"9","2","2","3","3","7","2","0","3","6","8","5","4","7","7","5">>

DurationSeconds(secs) ==
  LET mag == IF secs[1] = "-" THEN Tail(secs) ELSE secs
  IN  IF DigitsLeq(mag, DurationSecondsMax) THEN Ok([secs |-> secs])
      ELSE Panic("Duration::seconds out of bounds")

\* chrono::Duration::minutes
DurationMinutes(m) == [secs |-> Dec(m * 60)]

---------------------------------------------------------------------------
(* The fields of from_inifile, in the order of the source.                 *)

\* lines 117-120
ExtractMain(c) ==
  IF ~Has(c, "main") THEN Err("Missing section 'main' in ini file")
  ELSE Ok(c["main"])

\* lines 121-132
ExtractSession(mainsection, path) ==
  IF ~Has(mainsection, "session")
  THEN Err("Missing value 'session' in [main] section ini file " \o path)
  ELSE IF mainsection["session"] = None THEN Err("No session specified")
  ELSE Ok(mainsection["session"][1])

\* The session section were its error to repeat the message of [main].
ExtractSection_Main(c, session) ==
  IF ~Has(c, Str(session))
  THEN Err("Missing section 'main' in ini file")
  ELSE Ok(c[Str(session)])

\* lines 133-139
ExtractSection(c, session) ==
  IF ~Has(c, Str(session))
  THEN Err("Missing section '" \o Str(session) \o "' in ini file")
  ELSE Ok(c[Str(session)])

\* lines 141-155
ExtractMode(svcsection, session, path) ==
  IF ~Has(svcsection, "mode")
  THEN Err("Missing value 'mode' in [" \o Str(session)
           \o "] section ini file " \o path)
  ELSE IF svcsection["mode"] = None
  THEN Err("No mode (bgpactive|bgppassive|bmpactive|bmppassive) specified")
  ELSE PeerModeFromStr(svcsection["mode"][1])

\* lines 156-181
ExtractBgppeer(svcsection, peermode) ==
  IF Has(svcsection, "bgppeer")
  THEN IF svcsection["bgppeer"] = None
       THEN Err("invalid bgppeer was specified")
       ELSE LET s == svcsection["bgppeer"][1]
            IN  Match(ParseSocketAddr(s),
                      LAMBDA a : Ok(Some(a.val)),
                      Match(ParseIpAddr(s),
                            LAMBDA peerip :
                              Ok(Some(SocketAddrNew(peerip.val, 179))),
                            Err("invalid bgppeer was specified")))
  ELSE IF peermode = "BgpActive" THEN Err("bgppeer was not specified")
  ELSE Ok(None)

\* bmppeer were a bare address to get the port of bgppeer.
ExtractBmppeer_Port179(svcsection, peermode) ==
  IF Has(svcsection, "bmppeer")
  THEN IF svcsection["bmppeer"] = None
       THEN Err("invalid bmppeer was specified")
       ELSE LET s == svcsection["bmppeer"][1]
            IN  Match(ParseSocketAddr(s),
                      LAMBDA a : Ok(Some(a.val)),
                      Match(ParseIpAddr(s),
                            LAMBDA peerip :
                              Ok(Some(SocketAddrNew(peerip.val, 179))),
                            Err("invalid bmppeer was specified")))
  ELSE IF peermode = "BmpActive" THEN Err("bmppeer was not specified")
  ELSE Ok(None)

\* lines 182-207
ExtractBmppeer(svcsection, peermode) ==
  IF Has(svcsection, "bmppeer")
  THEN IF svcsection["bmppeer"] = None
       THEN Err("invalid bmppeer was specified")
       ELSE LET s == svcsection["bmppeer"][1]
            IN  Match(ParseSocketAddr(s),
                      LAMBDA a : Ok(Some(a.val)),
                      Match(ParseIpAddr(s),
                            LAMBDA peerip :
                              Ok(Some(SocketAddrNew(peerip.val, 632))),
                            Err("invalid bmppeer was specified")))
  ELSE IF peermode = "BmpActive" THEN Err("bmppeer was not specified")
  ELSE Ok(None)

\* protolisten were only BgpPassive to require it.
ExtractProtolisten_BgpOnly(svcsection, peermode) ==
  IF Has(svcsection, "protolisten")
  THEN IF svcsection["protolisten"] = None
       THEN Err("invalid protolisten was specified")
       ELSE LET s == svcsection["protolisten"][1]
            IN  Match(ParseSocketAddr(s),
                      LAMBDA a : Ok(Some(a.val)),
                      Bind(Match(ParseIpAddr(s),
                                 LAMBDA v : v.val,
                                 V4(<<0, 0, 0, 0>>)),
                           LAMBDA lip : Ok(Some(SocketAddrNew(lip, 179)))))
  ELSE IF peermode = "BgpPassive"
  THEN Err("protolisten was not specified")
  ELSE Ok(None)

\* lines 208-230
ExtractProtolisten(svcsection, peermode) ==
  IF Has(svcsection, "protolisten")
  THEN IF svcsection["protolisten"] = None
       THEN Err("invalid protolisten was specified")
       ELSE LET s == svcsection["protolisten"][1]
            IN  Match(ParseSocketAddr(s),
                      LAMBDA a : Ok(Some(a.val)),
                      Bind(Match(ParseIpAddr(s),
                                 LAMBDA v : v.val,
                                 V4(<<0, 0, 0, 0>>)),
                           LAMBDA lip : Ok(Some(SocketAddrNew(lip, 179)))))
  ELSE IF peermode = "BmpPassive" \/ peermode = "BgpPassive"
  THEN Err("protolisten was not specified")
  ELSE Ok(None)

\* lines 231-256
ExtractRouterid(svcsection) ==
  IF Has(svcsection, "routerid")
  THEN IF svcsection["routerid"] = None
       THEN Err("invalid routerid was specified")
       ELSE Match(ParseIpv4Addr(svcsection["routerid"][1]),
                  LAMBDA a : Ok(a.val),
                  Err("Invalid routerid - invalid IPv4 address syntax"))
  ELSE Match(ParseIpv4Addr(T_dflt_rid),
             LAMBDA a : Ok(a.val),
             Err("Invalid routerid - invalid IPv4 address syntax"))

\* lines 257-274
ExtractPeeras(svcsection) ==
  IF Has(svcsection, "peeras")
  THEN IF svcsection["peeras"] = None
       THEN Err("invalid bgppeeras was specified")
       ELSE MatchResult(ParseU32(svcsection["peeras"][1]),
                        LAMBDA a : Ok(a.val),
                        LAMBDA e : Err("Invalid bgp peer as - " \o e.err))
  ELSE Ok(Dec(0))

\* httplisten were a bare address to get the port 8080.
ExtractHttplisten_BareIp(mainsection) ==
  LET text == IF Has(mainsection, "httplisten")
              THEN IF mainsection["httplisten"] # None
                   THEN mainsection["httplisten"][1]
                   ELSE T_dflt_http
              ELSE T_dflt_http
  IN  Match(ParseSocketAddr(text),
            LAMBDA sa : Ok(sa.val),
            Match(ParseIpAddr(text),
                  LAMBDA ip : Ok(SocketAddrNew(ip.val, 8080)),
                  Err("Invalid httplisten - invalid socket address syntax")))

\* lines 275-292
ExtractHttplisten(mainsection) ==
  LET text == IF Has(mainsection, "httplisten")
              THEN IF mainsection["httplisten"] # None
                   THEN mainsection["httplisten"][1]
                   ELSE T_dflt_http
              ELSE T_dflt_http
  IN  Match(ParseSocketAddr(text),
            LAMBDA sa : Ok(sa.val),
            Err("Invalid httplisten - invalid socket address syntax"))

\* lines 293-300
ExtractHttptimeout(mainsection) ==
  IF Has(mainsection, "httptimeout")
  THEN IF mainsection["httptimeout"] # None
       THEN Match(ParseU64(mainsection["httptimeout"][1]),
                  LAMBDA a : Ok(a.val),
                  Ok(Dec(120)))
       ELSE Ok(Dec(120))
  ELSE Ok(Dec(120))

\* lines 301-308
ExtractHttproot(mainsection) ==
  IF Has(mainsection, "httproot")
  THEN IF mainsection["httproot"] # None
       THEN Ok(mainsection["httproot"][1])
       ELSE Ok(T_contrib)
  ELSE Ok(T_contrib)

\* historydepth were a value that does not parse to yield the default.
ExtractHistorydepth_Lenient(mainsection) ==
  IF Has(mainsection, "historydepth")
  THEN IF mainsection["historydepth"] = None
       THEN Err("invalid historydepth was specified")
       ELSE Match(ParseUsize(mainsection["historydepth"][1]),
                  LAMBDA a : Ok(a.val),
                  Ok(Dec(10)))
  ELSE Ok(Dec(10))

\* lines 309-326
ExtractHistorydepth(mainsection) ==
  IF Has(mainsection, "historydepth")
  THEN IF mainsection["historydepth"] = None
       THEN Err("invalid historydepth was specified")
       ELSE MatchResult(ParseUsize(mainsection["historydepth"][1]),
                        LAMBDA a : Ok(a.val),
                        LAMBDA e : Err("Invalid historydepth - " \o e.err))
  ELSE Ok(Dec(10))

\* lines 327-344
ExtractHistorymode(mainsection) ==
  IF Has(mainsection, "historymode")
  THEN IF mainsection["historymode"] = None
       THEN Err("invalid historymode was specified")
       ELSE Bind(HistoryChangeModeFromStr(mainsection["historymode"][1]),
                 LAMBDA r :
                   IF r.tag = "Err"
                   THEN Err("Invalid historymode - "
                            \o ErrorConfigDisplay(r.msg))
                   ELSE Ok(r.val))
  ELSE Ok("OnlyDiffer")

\* lines 345-359
ExtractPurgeAfterWithdraws(mainsection) ==
  IF Has(mainsection, "purge_after_withdraws")
  THEN IF mainsection["purge_after_withdraws"] = None
       THEN Err("invalid purge_after_withdraws was specified")
       ELSE MatchResult(ParseU64(mainsection["purge_after_withdraws"][1]),
                        LAMBDA a : Ok(a.val),
                        LAMBDA e : Err("Invalid purge_after_withdraws - "
                                       \o e.err))
  ELSE Ok(Dec(0))

\* lines 360-374
ExtractPurgeEvery(mainsection) ==
  IF Has(mainsection, "purge_every")
  THEN IF mainsection["purge_every"] = None
       THEN Err("invalid purge_every was specified")
       ELSE MatchResult(ParseI64(mainsection["purge_every"][1]),
                        LAMBDA a : DurationSeconds(a.val),
                        LAMBDA e : Err("Invalid purge_every - " \o e.err))
  ELSE Ok(DurationMinutes(5))

\* lines 375-382
ExtractWhoisreqtimeout(mainsection) ==
  IF Has(mainsection, "whois_request_timeout")
  THEN IF mainsection["whois_request_timeout"] # None
       THEN Match(ParseU64(mainsection["whois_request_timeout"][1]),
                  LAMBDA a : Ok(a.val),
                  Ok(Dec(30)))
       ELSE Ok(Dec(30))
  ELSE Ok(Dec(30))

\* lines 383-390
ExtractWhoiscachesecs(mainsection) ==
  IF Has(mainsection, "whois_cache_seconds")
  THEN IF mainsection["whois_cache_seconds"] # None
       THEN Match(ParseI64(mainsection["whois_cache_seconds"][1]),
                  LAMBDA a : Ok(a.val),
                  Ok(Dec(1800)))
       ELSE Ok(Dec(1800))
  ELSE Ok(Dec(1800))

\* lines 391-400: the result of WhoIs::from_path is unwrapped.  The panic
\* message ends with the error in its Debug form; the message of the program
\* has a backquote on each side of Result::unwrap() and of Err, a character
\* a string of this module cannot hold.
ExtractWhois(mainsection, fs) ==
  IF Has(mainsection, "whoisjsonconfig")
  THEN IF mainsection["whoisjsonconfig"] # None
       THEN Bind(WhoIsFromPath(mainsection["whoisjsonconfig"][1], fs),
                 LAMBDA r :
                   IF r.tag = "Ok" THEN Ok(r.val)
                   ELSE Panic("called Result::unwrap() on an Err value: "
                              \o r.msg))
       ELSE Err("Invalid whoisjsonconfig")
  ELSE Err("Invalid whoisjsonconfig")

\* lines 401-410
ExtractWhoisdb(mainsection) ==
  IF Has(mainsection, "whoisdb")
  THEN IF mainsection["whoisdb"] # None
       THEN Ok(mainsection["whoisdb"][1])
       ELSE Err("Invalid whoisdb")
  ELSE Ok(T_whoiscache)

\* The loop were the entries not trimmed.
RECURSIVE DnsLoop_NoTrim(_)
DnsLoop_NoTrim(pieces) ==
  IF pieces = <<>> THEN [dnses |-> <<>>, lines |-> <<>>]
  ELSE
    LET sdns == Head(pieces)
        rest == DnsLoop_NoTrim(Tail(pieces))
    IN  Match(ParseSocketAddr(sdns),
              LAMBDA sck :
                [dnses |-> <<sck.val>> \o rest.dnses, lines |-> rest.lines],
              Match(ParseSocketAddr(sdns \o T_53),
                    LAMBDA sck :
                      [dnses |-> <<sck.val>> \o rest.dnses,
                       lines |-> rest.lines],
                    [dnses |-> rest.dnses,
                     lines |-> <<"Invalid DNS: " \o Str(sdns)>>
                               \o rest.lines]))

\* lines 415-425: the loop over the comma-separated entries.  Returns
\* [dnses, lines]: the addresses pushed and the lines printed to stderr.
RECURSIVE DnsLoop(_)
DnsLoop(pieces) ==
  IF pieces = <<>> THEN [dnses |-> <<>>, lines |-> <<>>]
  ELSE
    LET sdns == Head(pieces)
        rest == DnsLoop(Tail(pieces))
    IN  Match(ParseSocketAddr(Trim(sdns)),
              LAMBDA sck :
                [dnses |-> <<sck.val>> \o rest.dnses, lines |-> rest.lines],
              Match(ParseSocketAddr(Trim(sdns) \o T_53),
                    LAMBDA sck :
                      [dnses |-> <<sck.val>> \o rest.dnses,
                       lines |-> rest.lines],
                    [dnses |-> rest.dnses,
                     lines |-> <<"Invalid DNS: " \o Str(sdns)>>
                               \o rest.lines]))

\* lines 411-434; val is [dnses, lines].
ExtractDnses(mainsection) ==
  IF Has(mainsection, "whoisdns") /\ mainsection["whoisdns"] = None
  THEN Err("Invalid whoisdns")
  ELSE Bind(IF Has(mainsection, "whoisdns")
            THEN DnsLoop(Split(mainsection["whoisdns"][1], ","))
            ELSE [dnses |-> <<>>, lines |-> <<>>],
            LAMBDA found :
              IF found.dnses = <<>>
              THEN Ok([dnses |-> <<ParseSocketAddr(T_dflt_dns).val>>,
                       lines |-> found.lines])
              ELSE Ok(found))

\* lines 435-454: the SvcConfig built from the locals.
SvcConfig(e) ==
  [routerid |-> e.routerid, bgppeer |-> e.bgppeer, bmppeer |-> e.bmppeer,
   protolisten |-> e.protolisten, bgppeeras |-> e.bgppeeras,
   httplisten |-> e.httplisten, httptimeout |-> e.httptimeout,
   httproot |-> e.httproot, historydepth |-> e.historydepth,
   historymode |-> e.historymode, whoisconfig |-> e.whois,
   whoisdb |-> e.whoisdb, whoisdnses |-> e.dnses,
   whoisreqtimeout |-> e.whoisreqtimeout,
   whoiscachesecs |-> e.whoiscachesecs, peermode |-> e.peermode,
   purge_after_withdraws |-> e.purge_after_withdraws,
   purge_every |-> e.purge_every]

---------------------------------------------------------------------------
(* Inputs: the texts the settings take, and the ini files built from them. *)

T_peer == <<"p","e","e","r">>
T_nosuch == <<"n","o","s","u","c","h">>
T_main == <<"m","a","i","n">>
T_bgpactive == <<"b","g","p","a","c","t","i","v","e">>
T_bgppassive == <<"b","g","p","p","a","s","s","i","v","e">>
T_bmppassive == <<"b","m","p","p","a","s","s","i","v","e">>
T_bmpactive == <<"b","m","p","a","c","t","i","v","e">>
T_bogus == <<"b","o","g","u","s">>
T_every == <<"e","v","e","r","y">>
T_differ == <<"d","i","f","f","e","r">>
T_sock4 == <<"1","0",".","0",".","0",".","1",":","1","7","9","0">>
T_ip4 == <<"1","0",".","0",".","0",".","1">>
T_ip6 == <<":",":","1">>
T_sock6 == <<"[",":",":","1","]",":","1","7","9","0">>
T_host == <<"r","o","u","t","e","r","1">>
T_routerid == <<"1","0",".","0",".","0",".","9">>
T_badrouterid == <<"1","0",".","0",".","0">>
T_as == <<"6","5","0","0","1">>
T_u32over == <<"4","2","9","4","9","6","7","2","9","6">>
T_notanumber == <<"n","o","t","a","n","u","m","b","e","r">>
T_httplisten == <<"1","2","7",".","0",".","0",".","1",":","8","0","8","0">>
T_barehttp == <<"1","2","7",".","0",".","0",".","1">>
T_60 == <<"6","0">>
T_minus5 == <<"-","5">>
T_srv == <<"/","s","r","v">>
T_5 == <<"5">>
T_3 == <<"3">>
T_1h == <<"1","h">>
T_i64max == <<"9","2","2","3","3","7","2","0","3","6","8","5","4","7","7","5","8","0","7">>
T_10 == <<"1","0">>
T_minus60 == <<"-","6","0">>
T_1d == <<"1","d">>
T_wjson == <<"w",".","j","s","o","n">>
T_xjson == <<"x",".","j","s","o","n">>
T_db == <<"d","b",".","s","q","l","i","t","e">>
T_dns8 == <<"8",".","8",".","8",".","8">>
T_dns9 == <<" ","9",".","9",".","9",".","9">>
T_dnsbad == <<" ","b","a","d","v","a","l","u","e">>
T_dnsport == <<"8",".","8",".","4",".","4",":","5","3","5","3">>
T_dnsff == <<"\f","8",".","8",".","8",".","8","\f">>

\* How many settings of an ini file differ from the base file.
MaxChanged == 2
\* How many comma-separated entries a whoisdns value holds.
MaxDnsEntries == 3
\* How many further tokens follow the first token of mode and historymode.
MaxTail == 1

\* A setting of the ini file: the key is absent, present without a value, or
\* present with a value.
Absent == <<>>
NoValue == <<None>>
Value(s) == <<Some(s)>>

MainKeys ==
  {"session", "httplisten", "httptimeout", "httproot", "historydepth",
   "historymode", "purge_after_withdraws", "purge_every",
   "whois_request_timeout", "whois_cache_seconds", "whoisjsonconfig",
   "whoisdb", "whoisdns"}

SvcKeys == {"mode", "bgppeer", "bmppeer", "protolisten", "routerid", "peeras"}

\* The ini file of a settings assignment a.  layout says how the keys are
\* laid out in sections: "split" ([main] and [peer]), "merged" (every key in
\* [main]) or "nomain" (no [main] section).
MkConf(a) ==
  LET sect(keys) == [k \in {x \in keys : a[x] # Absent} |-> a[k][1]]
  IN  CASE a.layout = "split" ->
             ("main" :> sect(MainKeys)) @@ ("peer" :> sect(SvcKeys))
        [] a.layout = "merged" -> ("main" :> sect(MainKeys \cup SvcKeys))
        [] a.layout = "nomain" -> ("peer" :> sect(SvcKeys))

\* A file that loads: BgpActive with every address given.
Base ==
  [layout |-> "split",
   session |-> Value(T_peer), httplisten |-> Absent, httptimeout |-> Absent,
   httproot |-> Absent, historydepth |-> Absent, historymode |-> Absent,
   purge_after_withdraws |-> Absent, purge_every |-> Absent,
   whois_request_timeout |-> Absent, whois_cache_seconds |-> Absent,
   whoisjsonconfig |-> Value(T_wjson), whoisdb |-> Absent,
   whoisdns |-> Absent,
   mode |-> Value(T_bgpactive), bgppeer |-> Value(T_sock4),
   bmppeer |-> Value(T_sock4), protolisten |-> Value(T_sock4),
   routerid |-> Absent, peeras |-> Absent]

AddrSettings ==
  {Absent, NoValue, Value(T_sock4), Value(T_ip4), Value(T_ip6),
   Value(T_sock6), Value(T_host)}

ModeTexts == {T_bgpactive, T_bgppassive, T_bmppassive, T_bmpactive}

\* The keys of an assignment, and the other settings each key takes.
SettingKeys ==
  <<"layout", "session", "httplisten", "httptimeout", "httproot",
    "historydepth", "historymode", "purge_after_withdraws", "purge_every",
    "whois_request_timeout", "whois_cache_seconds", "whoisjsonconfig",
    "whoisdb", "whoisdns", "mode", "bgppeer", "bmppeer", "protolisten",
    "routerid", "peeras">>

AddrOptions ==
  <<Absent, NoValue, Value(T_ip4), Value(T_ip6), Value(T_sock6), Value(T_host)>>

Settings ==
  [layout |-> <<"merged", "nomain">>,
   session |-> <<Absent, NoValue, Value(T_nosuch), Value(T_main)>>,
   httplisten |-> <<NoValue, Value(T_httplisten), Value(T_barehttp)>>,
   httptimeout |-> <<NoValue, Value(T_60), Value(T_notanumber), Value(T_minus5)>>,
   httproot |-> <<NoValue, Value(T_srv)>>,
   historydepth |-> <<NoValue, Value(T_5), Value(T_notanumber)>>,
   historymode |-> <<NoValue, Value(T_every), Value(T_differ), Value(T_bogus)>>,
   purge_after_withdraws |-> <<NoValue, Value(T_3), Value(T_minus5)>>,
   purge_every |-> <<NoValue, Value(T_60), Value(T_1h), Value(T_i64max)>>,
   whois_request_timeout |-> <<NoValue, Value(T_10), Value(<<>>)>>,
   whois_cache_seconds |-> <<NoValue, Value(T_minus60), Value(T_1d)>>,
   whoisjsonconfig |-> <<Absent, NoValue, Value(T_xjson)>>,
   whoisdb |-> <<NoValue, Value(T_db)>>,
   whoisdns |-> <<NoValue, Value(T_dns8), Value(T_dnsbad)>>,
   mode |-> <<Absent, NoValue, Value(T_bogus), Value(T_bgppassive),
              Value(T_bmppassive), Value(T_bmpactive)>>,
   bgppeer |-> AddrOptions, bmppeer |-> AddrOptions,
   protolisten |-> AddrOptions,
   routerid |-> <<NoValue, Value(T_routerid), Value(T_badrouterid)>>,
   peeras |-> <<NoValue, Value(T_as), Value(T_notanumber), Value(T_u32over)>>]

\* A change <<k, o>> gives key number k its option number o.
Changes ==
  UNION {{<<k, o>> : o \in 1..Len(Settings[SettingKeys[k]])} :
           k \in 1..Len(SettingKeys)}

\* The lists of at most n changes, each key changed at most once.
RECURSIVE ChangeLists(_)
ChangeLists(n) ==
  IF n = 0 THEN {<<>>}
  ELSE {<<>>} \cup
       {<<q[2]>> \o q[1] :
          q \in {p \in ChangeLists(n - 1) \X Changes :
                   p[1] = <<>> \/ p[2][1] < p[1][1][1]}}

\* The assignment a after the changes of a list.
RECURSIVE Apply(_, _)
Apply(a, cl) ==
  IF cl = <<>> THEN a
  ELSE Apply([a EXCEPT ![SettingKeys[cl[1][1]]] =
                         Settings[SettingKeys[cl[1][1]]][cl[1][2]]],
             Tail(cl))

\* Every peer mode with every combination of the three address settings.
AddrFamily ==
  {[Base EXCEPT !.mode = Value(m), !.bgppeer = b, !.bmppeer = p, !.protolisten = l] :
     m \in ModeTexts, b \in AddrSettings \ {NoValue},
     p \in AddrSettings \ {NoValue}, l \in AddrSettings \ {NoValue}}

SeqsUpTo(S, n) == UNION {[1..k -> S] : k \in 0..n}

RECURSIVE Join(_, _)
Join(parts, sep) ==
  IF parts = <<>> THEN <<>>
  ELSE IF Len(parts) = 1 THEN parts[1]
  ELSE parts[1] \o <<sep>> \o Join(Tail(parts), sep)

RECURSIVE Concat(_)
Concat(parts) == IF parts = <<>> THEN <<>> ELSE parts[1] \o Concat(Tail(parts))

\* whoisdns values of up to MaxDnsEntries entries.
DnsEntries == {T_dns8, T_dns9, T_dnsbad, T_dnsport, T_dnsff, <<>>}

DnsFamily ==
  {[Base EXCEPT !.whoisdns = Value(Join(es, ","))] :
     es \in SeqsUpTo(DnsEntries, MaxDnsEntries) \ {<<>>}}

\* mode and historymode values: a first token and up to MaxTail further
\* pieces, each a separator (space or tab) and a token.
Tails == {<<" ", "x">>, <<"\t", "x">>, <<" ">>, <<"\t">>}

EnumFamily ==
  {[Base EXCEPT !.mode = Value(h \o Concat(ts))] :
     h \in ModeTexts \cup {T_bogus, <<>>}, ts \in SeqsUpTo(Tails, MaxTail)}
  \cup
  {[Base EXCEPT !.historymode = Value(h \o Concat(ts))] :
     h \in {T_every, T_differ, T_bogus, <<>>}, ts \in SeqsUpTo(Tails, MaxTail)}

Families == AddrFamily \cup DnsFamily \cup EnumFamily

IniFiles == {"bgpexplorer.ini"}

FileSystems == {{"w.json"}}

---------------------------------------------------------------------------
(* SvcConfig::from_inifile as a state machine: one step per field.         *)

\* The file is the base file with at most MaxChanged settings changed, or a
\* file of one of the families.
Init ==
  /\ \/ \E cl \in ChangeLists(MaxChanged) : conf = MkConf(Apply(Base, cl))
     \/ \E a \in Families : conf = MkConf(a)
  /\ files \in FileSystems
  /\ inifile \in IniFiles
  /\ pc = "main"
  /\ env = <<>>
  /\ stderr = <<>>
  /\ ret = <<>>

\* One field: on success its value is bound to the local var and the load
\* goes on to the next field; otherwise from_inifile ends there.
Step(at, r, var, next) ==
  /\ pc = at
  /\ ret = <<>>
  /\ IF r.tag = "Ok"
     THEN /\ env' = (var :> r.val) @@ env
          /\ pc' = next
          /\ UNCHANGED ret
     ELSE /\ ret' = <<r.tag, r.msg>>
          /\ UNCHANGED <<pc, env>>
  /\ UNCHANGED <<conf, files, inifile, stderr>>

ReadMain == Step("main", ExtractMain(conf), "mainsection", "session")

ReadSession ==
  Step("session", ExtractSession(env.mainsection, inifile), "session", "section")

ReadSection ==
  Step("section", ExtractSection(conf, env.session), "svcsection", "mode")

ReadMode ==
  Step("mode", ExtractMode(env.svcsection, env.session, inifile),
       "peermode", "bgppeer")

ReadBgppeer ==
  Step("bgppeer", ExtractBgppeer(env.svcsection, env.peermode),
       "bgppeer", "bmppeer")

ReadBmppeer ==
  Step("bmppeer", ExtractBmppeer(env.svcsection, env.peermode),
       "bmppeer", "protolisten")

ReadProtolisten ==
  Step("protolisten", ExtractProtolisten(env.svcsection, env.peermode),
       "protolisten", "routerid")

ReadRouterid ==
  Step("routerid", ExtractRouterid(env.svcsection), "routerid", "peeras")

ReadPeeras ==
  Step("peeras", ExtractPeeras(env.svcsection), "bgppeeras", "httplisten")

ReadHttplisten ==
  Step("httplisten", ExtractHttplisten(env.mainsection),
       "httplisten", "httptimeout")

ReadHttptimeout ==
  Step("httptimeout", ExtractHttptimeout(env.mainsection),
       "httptimeout", "httproot")

ReadHttproot ==
  Step("httproot", ExtractHttproot(env.mainsection), "httproot", "historydepth")

ReadHistorydepth ==
  Step("historydepth", ExtractHistorydepth(env.mainsection),
       "historydepth", "historymode")

ReadHistorymode ==
  Step("historymode", ExtractHistorymode(env.mainsection),
       "historymode", "purge_after_withdraws")

ReadPurgeAfterWithdraws ==
  Step("purge_after_withdraws", ExtractPurgeAfterWithdraws(env.mainsection),
       "purge_after_withdraws", "purge_every")

ReadPurgeEvery ==
  Step("purge_every", ExtractPurgeEvery(env.mainsection),
       "purge_every", "whois_request_timeout")

ReadWhoisreqtimeout ==
  Step("whois_request_timeout", ExtractWhoisreqtimeout(env.mainsection),
       "whoisreqtimeout", "whois_cache_seconds")

ReadWhoiscachesecs ==
  Step("whois_cache_seconds", ExtractWhoiscachesecs(env.mainsection),
       "whoiscachesecs", "whoisjsonconfig")

ReadWhois ==
  Step("whoisjsonconfig", ExtractWhois(env.mainsection, files),
       "whois", "whoisdb")

ReadWhoisdb ==
  Step("whoisdb", ExtractWhoisdb(env.mainsection), "whoisdb", "whoisdns")

\* lines 411-434: the entries that do not parse are reported on stderr.
ReadDnses ==
  LET r == ExtractDnses(env.mainsection)
  IN  /\ pc = "whoisdns"
      /\ ret = <<>>
      /\ IF r.tag = "Ok"
         THEN /\ env' = ("dnses" :> r.val.dnses) @@ env
              /\ stderr' = stderr \o r.val.lines
              /\ pc' = "return"
              /\ UNCHANGED ret
         ELSE /\ ret' = <<r.tag, r.msg>>
              /\ UNCHANGED <<pc, env, stderr>>
      /\ UNCHANGED <<conf, files, inifile>>

\* lines 435-454
Return ==
  /\ pc = "return"
  /\ ret = <<>>
  /\ ret' = <<"Ok", SvcConfig(env)>>
  /\ UNCHANGED <<conf, files, inifile, pc, env, stderr>>

Next ==
  \/ ReadMain
  \/ ReadSession
  \/ ReadSection
  \/ ReadMode
  \/ ReadBgppeer
  \/ ReadBmppeer
  \/ ReadProtolisten
  \/ ReadRouterid
  \/ ReadPeeras
  \/ ReadHttplisten
  \/ ReadHttptimeout
  \/ ReadHttproot
  \/ ReadHistorydepth
  \/ ReadHistorymode
  \/ ReadPurgeAfterWithdraws
  \/ ReadPurgeEvery
  \/ ReadWhoisreqtimeout
  \/ ReadWhoiscachesecs
  \/ ReadWhois
  \/ ReadWhoisdb
  \/ ReadDnses
  \/ Return

Spec == Init /\ [][Next]_vars

---------------------------------------------------------------------------
(* What the properties below speak of.                                     *)

PcOrder ==
  <<"main", "session", "section", "mode", "bgppeer", "bmppeer", "protolisten",
    "routerid", "peeras", "httplisten", "httptimeout", "httproot",
    "historydepth", "historymode", "purge_after_withdraws", "purge_every",
    "whois_request_timeout", "whois_cache_seconds", "whoisjsonconfig",
    "whoisdb", "whoisdns", "return">>

PcIdx(at) == CHOOSE i \in 1..Len(PcOrder) : PcOrder[i] = at

\* The load went past the field at, and bound its local.
Passed(at) == PcIdx(pc) > PcIdx(at)
\* from_inifile ended at the field at without a config.
StoppedAt(at) == pc = at /\ ret # <<>> /\ ret[1] # "Ok"
\* The field at was examined.
Acted(at) == Passed(at) \/ StoppedAt(at)
\* from_inifile is over.
Done == ret # <<>>
Returned(tag) == ret # <<>> /\ ret[1] = tag
\* from_inifile returned Err with the message m, at the field at.
ErrAt(at, m) == pc = at /\ Returned("Err") /\ ret[2] = m
\* from_inifile returned some Err at the field at.
SomeErrAt(at) == pc = at /\ Returned("Err")

\* The sections of the file as the file gives them (not as the load bound
\* them): [main], and the section main.session names.
HasMain == Has(conf, "main")
HasSessionValue ==
  HasMain /\ Has(conf["main"], "session") /\ conf["main"]["session"] # None
SessionName == conf["main"]["session"][1]
HasSessionSection == HasSessionValue /\ Has(conf, Str(SessionName))
SessionSection == conf[Str(SessionName)]

\* key is present with the value s in section.
HasText(section, key) == Has(section, key) /\ section[key] # None

Sock4(a, b, c, d, port) ==
  [ip |-> [v |-> 4, a |-> <<a, b, c, d>>], port |-> port, scope |-> <<"0">>]

\* The loads of the files whose purge_every, when it is a number, is within
\* the range of chrono::Duration.
InitInRange ==
  /\ Init
  /\ HasMain => ExtractPurgeEvery(conf["main"]).tag # "Panic"

SpecInRange == InitInRange /\ [][Next]_vars

---------------------------------------------------------------------------
(* C1 *)

\* The requirement table of the peer modes.
C1_Requires(mode, field) ==
  \/ field = "bgppeer" /\ mode = "BgpActive"
  \/ field = "bmppeer" /\ mode = "BmpActive"
  \/ field = "protolisten" /\ mode \in {"BgpPassive", "BmpPassive"}

\* C1: for every resolved peer mode and each of bgppeer, bmppeer and
\* protolisten, when the load examines the field and its key is absent from
\* the session section, from_inifile returns the error "<field> was not
\* specified" exactly when the mode requires the field; otherwise the load
\* goes on with the field unset (None), and it is None in a returned config.
\* A returned config has every field its mode requires.
C1_RequiredAddressFields ==
  \A f \in {"bgppeer", "bmppeer", "protolisten"} :
    /\ (Acted(f) /\ ~Has(SessionSection, f)) =>
         IF C1_Requires(env.peermode, f)
         THEN ErrAt(f, f \o " was not specified")
         ELSE /\ Passed(f)
              /\ env[f] = None
              /\ (Returned("Ok") => ret[2][f] = None)
    /\ (Returned("Err") /\ ret[2] = f \o " was not specified") =>
         /\ pc = f
         /\ ~Has(SessionSection, f)
         /\ C1_Requires(env.peermode, f)

\* BmpPassive without any address key: bgppeer and bmppeer were left unset
\* and the missing protolisten ended the load.
C1_Witness ==
  /\ ErrAt("protolisten", "protolisten was not specified")
  /\ env.peermode = "BmpPassive"
  /\ ~Has(SessionSection, "bgppeer") /\ env.bgppeer = None
  /\ ~Has(SessionSection, "bmppeer") /\ env.bmppeer = None
  /\ ~Has(SessionSection, "protolisten")

---------------------------------------------------------------------------
(* C2 *)

\* C2: from_inifile always ends by returning a config or an ErrorConfig;
\* when whoisjsonconfig is absent or the file it names does not load, what is
\* returned is an error.
C2_ValueOrError ==
  /\ Done => ret[1] \in {"Ok", "Err"}
  /\ (Acted("whoisjsonconfig")
      /\ (~HasText(conf["main"], "whoisjsonconfig")
          \/ Str(conf["main"]["whoisjsonconfig"][1]) \notin files))
     => SomeErrAt("whoisjsonconfig")

---------------------------------------------------------------------------
(* C3 *)

\* What examining the field at yields on this file, were the load to reach
\* it (the fields before it having succeeded).
C3_Outcome(at) ==
  CASE at = "main" -> ExtractMain(conf)
    [] at = "session" -> ExtractSession(conf["main"], inifile)
    [] at = "section" -> ExtractSection(conf, SessionName)
    [] at = "mode" -> ExtractMode(SessionSection, SessionName, inifile)
    [] at = "bgppeer" ->
         ExtractBgppeer(SessionSection, PeerModeFromStr(SessionSection["mode"][1]).val)
    [] at = "bmppeer" ->
         ExtractBmppeer(SessionSection, PeerModeFromStr(SessionSection["mode"][1]).val)
    [] at = "protolisten" ->
         ExtractProtolisten(SessionSection, PeerModeFromStr(SessionSection["mode"][1]).val)
    [] at = "routerid" -> ExtractRouterid(SessionSection)
    [] at = "peeras" -> ExtractPeeras(SessionSection)
    [] at = "httplisten" -> ExtractHttplisten(conf["main"])
    [] at = "historydepth" -> ExtractHistorydepth(conf["main"])
    [] at = "historymode" -> ExtractHistorymode(conf["main"])
    [] at = "purge_after_withdraws" -> ExtractPurgeAfterWithdraws(conf["main"])
    [] at = "purge_every" -> ExtractPurgeEvery(conf["main"])
    [] at = "whoisjsonconfig" -> ExtractWhois(conf["main"], files)
    [] at = "whoisdb" -> ExtractWhoisdb(conf["main"])
    [] at = "whoisdns" -> ExtractDnses(conf["main"])

\* The fields of the fixed order that can fail.
C3_Order ==
  <<"main", "session", "section", "mode", "bgppeer", "bmppeer", "protolisten",
    "routerid", "peeras", "httplisten", "historydepth", "historymode",
    "purge_after_withdraws", "purge_every", "whoisjsonconfig", "whoisdb",
    "whoisdns">>

\* The field at can be judged on this file: the sections (and the mode) it
\* reads exist.
C3_Defined(at) ==
  CASE at = "main" -> TRUE
    [] at = "session" -> HasMain
    [] at = "section" -> HasSessionValue
    [] at \in {"mode", "routerid", "peeras"} -> HasSessionSection
    [] at \in {"bgppeer", "bmppeer", "protolisten"} ->
         HasSessionSection /\ ExtractMode(SessionSection, SessionName, inifile).tag = "Ok"
    [] OTHER -> HasMain

\* The positions in C3_Order of the fields with a fatal problem.
C3_Problems ==
  {i \in 1..Len(C3_Order) :
     C3_Defined(C3_Order[i]) /\ C3_Outcome(C3_Order[i]).tag # "Ok"}

C3_Earliest == CHOOSE i \in C3_Problems : \A k \in C3_Problems : i <= k

\* C3: when the file has fatal problems in several fields, from_inifile
\* returns the error of the earliest of them in the fixed order, examines no
\* later field, and produces no config.
C3_FirstErrorOnly ==
  (Done /\ Cardinality(C3_Problems) >= 2) =>
     /\ Returned("Err")
     /\ pc = C3_Order[C3_Earliest]
     /\ ret[2] = C3_Outcome(C3_Order[C3_Earliest]).msg

---------------------------------------------------------------------------
(* C4 *)

C4_Good(e) ==
  ParseSocketAddr(Trim(e)).ok \/ ParseSocketAddr(Trim(e) \o <<":", "5", "3">>).ok

C4_Addr(e) ==
  IF ParseSocketAddr(Trim(e)).ok THEN ParseSocketAddr(Trim(e)).val
  ELSE ParseSocketAddr(Trim(e) \o <<":", "5", "3">>).val

\* The whoisdns entries that parse, in input order.
C4_Valid ==
  IF ~HasText(conf["main"], "whoisdns") THEN <<>>
  ELSE LET sel == SelectSeq(Split(conf["main"]["whoisdns"][1], ","), C4_Good)
       IN  [i \in 1..Len(sel) |-> C4_Addr(sel[i])]

\* C4: in every returned config whoisdnses is non-empty: it is the list, in
\* input order, of the comma-separated whoisdns entries that parse as a socket
\* address or, suffixed with ":53", as one; the other entries are dropped;
\* when whoisdns is absent or no entry parses it is exactly [1.1.1.1:53].
\* "8.8.8.8, badvalue, 9.9.9.9" yields [8.8.8.8:53, 9.9.9.9:53].
C4_DnsList ==
  Returned("Ok") =>
    /\ ret[2].whoisdnses # <<>>
    /\ ret[2].whoisdnses =
         IF C4_Valid = <<>> THEN <<Sock4(1, 1, 1, 1, 53)>> ELSE C4_Valid
    /\ (HasText(conf["main"], "whoisdns")
        /\ conf["main"]["whoisdns"][1] = Join(<<T_dns8, T_dnsbad, T_dns9>>, ","))
       => ret[2].whoisdnses = <<Sock4(8, 8, 8, 8, 53), Sock4(9, 9, 9, 9, 53)>>

\* "8.8.8.8, badvalue, 9.9.9.9" loaded: the bad entry was dropped and
\* reported, the two others kept in order.
C4_Witness ==
  /\ Returned("Ok")
  /\ HasText(conf["main"], "whoisdns")
  /\ conf["main"]["whoisdns"][1] = Join(<<T_dns8, T_dnsbad, T_dns9>>, ",")
  /\ ret[2].whoisdnses = <<Sock4(8, 8, 8, 8, 53), Sock4(9, 9, 9, 9, 53)>>
  /\ stderr = <<"Invalid DNS:  badvalue">>

---------------------------------------------------------------------------
(* C5 *)

\* s is an integer literal of a type: an optional sign ("-" only when the
\* type is signed), at least one decimal digit, a value within the range.
C5_IsInt(s, signed, maxPos, maxNegAbs) ==
  \E k \in 0..1 :
    /\ Len(s) > k
    /\ k = 1 => (s[1] = "+" \/ (signed /\ s[1] = "-"))
    /\ \A i \in (k + 1)..Len(s) : s[i] \in {DecChars[d] : d \in 1..10}
    /\ DigitsLeq(StripZeros(SubSeq(s, k + 1, Len(s))),
                 IF k = 1 /\ s[1] = "-" THEN maxNegAbs ELSE maxPos)

\* The numeric fields that fall back to a default: key, local, type, default.
C5_Silent ==
  {<<"httptimeout", "httptimeout", FALSE, 120>>,
   <<"whois_request_timeout", "whoisreqtimeout", FALSE, 30>>,
   <<"whois_cache_seconds", "whoiscachesecs", TRUE, 1800>>}

\* The numeric fields of [main] that fail the load: key, signed, largest value.
C5_FatalMain ==
  {<<"historydepth", FALSE, U64Max>>, <<"purge_after_withdraws", FALSE, U64Max>>,
   <<"purge_every", TRUE, I64Max>>}

\* C5: a present value that does not parse never fails the load at
\* httptimeout, whois_request_timeout or whois_cache_seconds: the field
\* carries its default (120, 30, 1800).  A present value that does not parse
\* for historydepth, peeras, purge_after_withdraws or purge_every makes
\* from_inifile return an error.
C5_SilentAndFatalNumbers ==
  /\ \A f \in C5_Silent :
       (Acted(f[1]) /\ HasText(conf["main"], f[1])
        /\ ~C5_IsInt(conf["main"][f[1]][1], f[3],
                     IF f[3] THEN I64Max ELSE U64Max, I64MinAbs))
       => /\ Passed(f[1])
          /\ env[f[2]] = Dec(f[4])
          /\ (Returned("Ok") => ret[2][f[2]] = Dec(f[4]))
  /\ \A f \in C5_FatalMain :
       (HasMain /\ HasText(conf["main"], f[1])
        /\ ~C5_IsInt(conf["main"][f[1]][1], f[2], f[3], I64MinAbs))
       => /\ ~Passed(f[1])
          /\ (Acted(f[1]) => SomeErrAt(f[1]))
          /\ (Done => Returned("Err"))
  /\ (HasSessionSection /\ HasText(SessionSection, "peeras")
      /\ ~C5_IsInt(SessionSection["peeras"][1], FALSE, U32Max, U32Max))
     => /\ ~Passed("peeras")
        /\ (Acted("peeras") => SomeErrAt("peeras"))
        /\ (Done => Returned("Err"))

\* httptimeout = "notanumber" was replaced by 120 and the load went on, to
\* fail at historydepth = "notanumber".
C5_Witness ==
  /\ HasMain
  /\ HasText(conf["main"], "httptimeout")
  /\ conf["main"]["httptimeout"][1] = T_notanumber
  /\ HasText(conf["main"], "historydepth")
  /\ conf["main"]["historydepth"][1] = T_notanumber
  /\ SomeErrAt("historydepth")
  /\ env.httptimeout = Dec(120)

---------------------------------------------------------------------------
(* C6 *)

C6_DefaultPort(f) == IF f = "bmppeer" THEN 632 ELSE 179

\* What C6 says of the field f holding the text s, sa and ip being s parsed
\* as a socket address and as an IP address.
C6_Field(f, s, sa, ip) ==
  /\ IF sa.ok
     THEN Passed(f) /\ env[f] = Some(sa.val)
     ELSE IF ip.ok
     THEN Passed(f)
          /\ env[f] = Some([ip |-> ip.val, port |-> C6_DefaultPort(f),
                            scope |-> <<"0">>])
     ELSE IF f = "protolisten"
     THEN Passed(f) /\ env[f] = Some(Sock4(0, 0, 0, 0, 179))
     ELSE SomeErrAt(f)
  /\ s = T_ip4 => env[f] = Some(Sock4(10, 0, 0, 1, C6_DefaultPort(f)))
  /\ s = T_sock4 => env[f] = Some(Sock4(10, 0, 0, 1, 1790))
  /\ (Returned("Ok") => ret[2][f] = env[f])

\* C6: when the load is over, for each of bgppeer, bmppeer and protolisten
\* that was examined with a present value: a value
\* that parses as a socket address is used unchanged; otherwise a value that
\* parses as an IP address is paired with port 179 (bgppeer, protolisten) or
\* 632 (bmppeer); a value that parses as neither makes from_inifile return
\* an error for bgppeer and bmppeer, in every peer mode, and yields
\* 0.0.0.0:179 for protolisten.  "10.0.0.1" yields 10.0.0.1:179 for bgppeer
\* and 10.0.0.1:632 for bmppeer.
C6_AddressFallback ==
  \A f \in {"bgppeer", "bmppeer", "protolisten"} :
    (Done /\ Acted(f) /\ HasText(SessionSection, f)) =>
      C6_Field(f, SessionSection[f][1], ParseSocketAddr(SessionSection[f][1]),
               ParseIpAddr(SessionSection[f][1]))

\* A returned config of bare addresses: ports 179 and 632, and 0.0.0.0:179
\* for a protolisten that is no address.
C6_Witness ==
  /\ Returned("Ok")
  /\ \A f \in {"bgppeer", "bmppeer", "protolisten"} : Has(SessionSection, f)
  /\ SessionSection["bgppeer"] = Some(T_ip4)
  /\ SessionSection["bmppeer"] = Some(T_ip4)
  /\ SessionSection["protolisten"] = Some(T_host)
  /\ ret[2].bgppeer = Some(Sock4(10, 0, 0, 1, 179))
  /\ ret[2].bmppeer = Some(Sock4(10, 0, 0, 1, 632))
  /\ ret[2].protolisten = Some(Sock4(0, 0, 0, 0, 179))

---------------------------------------------------------------------------
(* C7 *)

\* The text before the first character of s that satisfies IsSep.
C7_FirstToken(s, IsSep(_)) ==
  LET seps == {i \in 1..Len(s) : IsSep(s[i])}
  IN  IF seps = {} THEN s
      ELSE SubSeq(s, 1, (CHOOSE i \in seps : \A k \in seps : i <= k) - 1)

C7_IsSpace(c) == c = " "

C7_Modes ==
  ("bgpactive" :> "BgpActive") @@ ("bgppassive" :> "BgpPassive") @@
  ("bmppassive" :> "BmpPassive") @@ ("bmpactive" :> "BmpActive")

C7_HistoryModes == ("every" :> "EveryUpdate") @@ ("differ" :> "OnlyDiffer")

\* mode and historymode are matched by the first token of their value, the
\* tokens being separated by the characters IsSep accepts.
C7_Enumerated(IsSep(_)) ==
  /\ (Acted("mode") /\ HasText(SessionSection, "mode")) =>
       LET tok == Str(C7_FirstToken(SessionSection["mode"][1], IsSep))
       IN  IF tok \in DOMAIN C7_Modes
           THEN Passed("mode") /\ env.peermode = C7_Modes[tok]
           ELSE ErrAt("mode", "invalid mode")
  /\ (Acted("historymode") /\ HasText(conf["main"], "historymode")) =>
       LET tok == Str(C7_FirstToken(conf["main"]["historymode"][1], IsSep))
       IN  IF tok \in DOMAIN C7_HistoryModes
           THEN Passed("historymode") /\ env.historymode = C7_HistoryModes[tok]
           ELSE SomeErrAt("historymode")
  /\ (Acted("historymode") /\ ~Has(conf["main"], "historymode")) =>
       Passed("historymode") /\ env.historymode = "OnlyDiffer"
  /\ Returned("Ok") => /\ ret[2].peermode = env.peermode
                       /\ ret[2].historymode = env.historymode

\* C7 as claimed: the value is split on whitespace, only its first token is
\* matched against the vocabulary, the tokens after it are ignored, an
\* unmatched first token fails the load, and an absent historymode is
\* OnlyDiffer.
C7_SplitOnWhitespace == C7_Enumerated(IsWhitespace)

\* C7 as amended: the value is split on the space character only; a tab
\* does not end the first token.
C7_SplitOnSpace == C7_Enumerated(C7_IsSpace)

\* historymode = "every x" loaded as EveryUpdate.
C7_Witness ==
  /\ Returned("Ok")
  /\ Has(conf["main"], "historymode")
  /\ conf["main"]["historymode"] = Some(T_every \o <<" ", "x">>)
  /\ ret[2].historymode = "EveryUpdate"

---------------------------------------------------------------------------
(* C8 *)

C8_NoMain == "Missing section 'main' in ini file"
C8_NoSession(path) == "Missing value 'session' in [main] section ini file " \o path
C8_NoSection(name) == "Missing section '" \o name \o "' in ini file"

\* The locals bound from the session section.
C8_SessionLocals ==
  {"peermode", "bgppeer", "bmppeer", "protolisten", "routerid", "bgppeeras"}

\* C8: a missing [main] section, a missing session key and a missing section
\* named by main.session each make from_inifile return an error that names
\* the missing piece; the three errors differ from each other; and no field
\* of the session section is read unless all three are present.
C8_SessionIndirection ==
  /\ (Done /\ ~HasMain) => ErrAt("main", C8_NoMain) /\ env = <<>>
  /\ (Acted("session") /\ ~Has(conf["main"], "session")) =>
       /\ ErrAt("session", C8_NoSession(inifile))
       /\ ret[2] # C8_NoMain
       /\ \A name \in DOMAIN conf \cup {"peer", "nosuch"} :
            ret[2] # C8_NoSection(name)
  /\ (Acted("section") /\ ~Has(conf, Str(SessionName))) =>
       /\ ErrAt("section", C8_NoSection(Str(SessionName)))
       /\ ret[2] # C8_NoMain
       /\ ret[2] # C8_NoSession(inifile)
  /\ (Acted("mode") \/ DOMAIN env \cap C8_SessionLocals # {}) =>
       HasMain /\ HasSessionValue /\ HasSessionSection

\* main.session names a section the file does not have.
C8_Witness ==
  /\ HasSessionValue
  /\ SessionName = T_nosuch
  /\ ErrAt("section", "Missing section 'nosuch' in ini file")
  /\ DOMAIN env = {"mainsection", "session"}

---------------------------------------------------------------------------
(* C9 *)

\* C9: httplisten is set in every returned config: 0.0.0.0:8080 when the key
\* is absent; a present value must parse as a socket address, and a bare IP
\* address or any other text makes from_inifile return an error.
C9_Httplisten ==
  /\ (Acted("httplisten") /\ ~Has(conf["main"], "httplisten")) =>
       Passed("httplisten") /\ env.httplisten = Sock4(0, 0, 0, 0, 8080)
  /\ (Acted("httplisten") /\ HasText(conf["main"], "httplisten")) =>
       LET s == conf["main"]["httplisten"][1]
       IN  /\ IF ParseSocketAddr(s).ok
              THEN Passed("httplisten") /\ env.httplisten = ParseSocketAddr(s).val
              ELSE SomeErrAt("httplisten")
           /\ ParseIpAddr(s).ok => SomeErrAt("httplisten")
  /\ Returned("Ok") => ret[2].httplisten = env.httplisten

\* httplisten = "127.0.0.1", a bare IP address, ended the load.
C9_Witness ==
  /\ HasMain
  /\ HasText(conf["main"], "httplisten")
  /\ conf["main"]["httplisten"][1] = T_barehttp
  /\ ErrAt("httplisten", "Invalid httplisten - invalid socket address syntax")

---------------------------------------------------------------------------
(* C10 *)

C10_FatalMainKeys ==
  {"session", "historydepth", "historymode", "purge_after_withdraws",
   "purge_every", "whoisjsonconfig", "whoisdb", "whoisdns"}

C10_FatalSessionKeys ==
  {"mode", "bgppeer", "bmppeer", "protolisten", "routerid", "peeras"}

\* The keys that take their default: key, local, default.
C10_Soft ==
  {<<"httplisten", "httplisten", Sock4(0, 0, 0, 0, 8080)>>,
   <<"httptimeout", "httptimeout", Dec(120)>>,
   <<"httproot", "httproot", T_contrib>>,
   <<"whois_request_timeout", "whoisreqtimeout", Dec(30)>>,
   <<"whois_cache_seconds", "whoiscachesecs", Dec(1800)>>}

\* C10: a key present without a value makes from_inifile return an error
\* for session, mode, bgppeer, bmppeer, protolisten, routerid, peeras,
\* historydepth, historymode, purge_after_withdraws, purge_every,
\* whoisjsonconfig, whoisdb and whoisdns; for httplisten, httptimeout,
\* httproot, whois_request_timeout and whois_cache_seconds it yields the
\* field's default and does not fail the load.
C10_KeyWithoutValue ==
  /\ \A k \in C10_FatalMainKeys :
       (Done /\ HasMain /\ Has(conf["main"], k) /\ conf["main"][k] = None)
       => Returned("Err")
  /\ \A k \in C10_FatalSessionKeys :
       (Done /\ HasSessionSection /\ Has(SessionSection, k)
        /\ SessionSection[k] = None)
       => Returned("Err")
  /\ \A f \in C10_Soft :
       (Acted(f[1]) /\ Has(conf["main"], f[1]) /\ conf["main"][f[1]] = None)
       => Passed(f[1]) /\ env[f[2]] = f[3]

=============================================================================
